---- MODULE Spec2Model ----
(***************************************************************************)
(* Schema relationship graph and join-path planner of                      *)
(* theprismdata/llm-sql-maker (src/query_gen.py, class                     *)
(* HybridQueryGenerator).                                                  *)
(*                                                                         *)
(* State: the generator's fields table_schemas, table_relations and        *)
(* neo4j_driver, the content of the Neo4j store (graph), and the call the  *)
(* single-threaded caller has made and not yet consumed (call).            *)
(* Confidences are kept in hundredths: 1.0 is 100, 0.9 is 90, 0.5 is 50.   *)
(***************************************************************************)
EXTENDS Integers, Sequences, FiniteSets, TLC

VARIABLES table_schemas, table_relations, neo4j_driver, graph, call

vars == <<table_schemas, table_relations, neo4j_driver, graph, call>>

(***************************************************************************)
(* Bounds of the model.                                                    *)
(***************************************************************************)
MaxRequired == 4

(***************************************************************************)
(* Program constants.                                                      *)
(***************************************************************************)
FKConfidence == 100
DefaultConfidence == 50
SemanticCeiling == 90
MaxHops == 3
MinRequired == 2

(***************************************************************************)
(* Sequence helpers.                                                       *)
(***************************************************************************)
SeqRange(s) == {s[i] : i \in 1..Len(s)}

RECURSIVE SeqsUpTo(_, _)
SeqsUpTo(S, n) ==
    IF n = 0 THEN {<<>>}
    ELSE LET shorter == SeqsUpTo(S, n - 1)
         IN  shorter \cup {Append(s, x) : s \in {t \in shorter : Len(t) = n - 1}, x \in S}

RECURSIVE Permutations_(_)
Permutations_(S) ==
    IF S = {} THEN {<<>>}
    ELSE UNION {{<<x>> \o p : p \in Permutations_(S \ {x})} : x \in S}

(***************************************************************************)
(* Table names, in ascending name order (Python string comparison:         *)
(* "order_items" < "orders" because "_" < "s").                            *)
(***************************************************************************)
TableNames == <<"categories", "order_items", "orders", "products", "reviews", "users">>

NameRank(t) == CHOOSE i \in 1..Len(TableNames) : TableNames[i] = t

(***************************************************************************)
(* The schema model: TableSchema records (table_name, columns,             *)
(* primary_keys, foreign_keys, comment).  The columns of a table are those *)
(* the embedded DDL declares for it.                                       *)
(***************************************************************************)
DDLColumns(t) ==
    CASE t = "users" -> <<"user_id", "username", "email", "full_name",
                          "created_at", "updated_at", "status">>
      [] t = "categories" -> <<"category_id", "category_name", "parent_category_id",
                               "description", "created_at">>
      [] t = "products" -> <<"product_id", "product_name", "category_id", "price",
                             "stock_quantity", "description", "created_at",
                             "updated_at", "status">>
      [] t = "orders" -> <<"order_id", "user_id", "order_date", "total_amount",
                           "status", "shipping_address">>
      [] t = "order_items" -> <<"order_item_id", "order_id", "product_id", "quantity",
                                "unit_price", "subtotal">>
      [] t = "reviews" -> <<"review_id", "user_id", "product_id", "order_id", "rating",
                            "review_text", "created_at">>

DDLComment(t) ==
    CASE t = "users" -> "user accounts"
      [] t = "categories" -> "product categories"
      [] t = "products" -> "products on sale"
      [] t = "orders" -> "user orders"
      [] t = "order_items" -> "items of an order"
      [] t = "reviews" -> ""

FK(from_column, to_table, to_column) ==
    [from_column |-> from_column, to_table |-> to_table, to_column |-> to_column]

TableSchema(t, fks) ==
    [table_name |-> t, columns |-> DDLColumns(t), primary_keys |-> <<DDLColumns(t)[1]>>,
     foreign_keys |-> fks, comment |-> DDLComment(t)]

\* The five tables the DDL parser yields, with their foreign keys.
SchemaDDL ==
    << TableSchema("users", <<>>),
       TableSchema("categories", <<FK("parent_category_id", "categories", "category_id")>>),
       TableSchema("products", <<FK("category_id", "categories", "category_id")>>),
       TableSchema("orders", <<FK("user_id", "users", "user_id")>>),
       TableSchema("order_items", <<FK("order_id", "orders", "order_id"),
                                    FK("product_id", "products", "product_id")>>) >>

\* users <- orders <- order_items -> products
SchemaChain ==
    << TableSchema("users", <<>>),
       TableSchema("orders", <<FK("user_id", "users", "user_id")>>),
       TableSchema("order_items", <<FK("order_id", "orders", "order_id"),
                                    FK("product_id", "products", "product_id")>>),
       TableSchema("products", <<>>) >>

\* The DDL's six tables as one chain:
\* categories <- products <- order_items -> orders -> users <- reviews
SchemaLong ==
    << TableSchema("users", <<>>),
       TableSchema("categories", <<>>),
       TableSchema("products", <<FK("category_id", "categories", "category_id")>>),
       TableSchema("orders", <<FK("user_id", "users", "user_id")>>),
       TableSchema("order_items", <<FK("order_id", "orders", "order_id"),
                                    FK("product_id", "products", "product_id")>>),
       TableSchema("reviews", <<FK("user_id", "users", "user_id")>>) >>

\* No foreign key at all.
SchemaNoFK ==
    << TableSchema("users", <<>>),
       TableSchema("products", <<>>),
       TableSchema("categories", <<>>) >>

\* The same foreign key declared twice, a cycle of foreign keys, and a
\* foreign key to a table the schema does not hold.
SchemaDup ==
    << TableSchema("users", <<>>),
       TableSchema("products", <<>>),
       TableSchema("orders", <<FK("user_id", "users", "user_id"),
                               FK("user_id", "users", "user_id")>>),
       TableSchema("reviews", <<FK("user_id", "users", "user_id"),
                                FK("product_id", "products", "product_id"),
                                FK("order_id", "orders", "order_id"),
                                FK("order_item_id", "order_items", "order_item_id")>>) >>

\* Two branches off users: users <- orders -> categories and
\* users <- reviews -> products.  The foreign key of orders to users is a
\* column whose name differs from the key it refers to.
SchemaBranch ==
    << TableSchema("users", <<>>),
       TableSchema("categories", <<>>),
       TableSchema("products", <<>>),
       [table_name |-> "orders", columns |-> <<"order_id", "customer_id", "category_id">>,
        primary_keys |-> <<"order_id">>,
        foreign_keys |-> <<FK("customer_id", "users", "user_id"),
                           FK("category_id", "categories", "category_id")>>,
        comment |-> "user orders"],
       TableSchema("reviews", <<FK("user_id", "users", "user_id"),
                                FK("product_id", "products", "product_id")>>) >>

Schemas == {SchemaDDL, SchemaChain, SchemaLong, SchemaNoFK, SchemaDup, SchemaBranch}

SchemaNames(schemas) == {schemas[i].table_name : i \in 1..Len(schemas)}

\* self.table_schemas.get(name); only used under name \in SchemaNames.
SchemaGet(schemas, name) ==
    schemas[CHOOSE i \in 1..Len(schemas) : schemas[i].table_name = name]

(***************************************************************************)
(* TableRelation records.                                                  *)
(***************************************************************************)
TableRelation(ft, fc, tt, tc, type, conf) ==
    [from_table |-> ft, from_column |-> fc, to_table |-> tt, to_column |-> tc,
     relation_type |-> type, confidence |-> conf]

(***************************************************************************)
(* extract_table_relations, pass 1: one foreign_key relation per entry of  *)
(* every table's foreign_keys, tables in dict order, confidence 1.0.       *)
(***************************************************************************)
\* Mutant: only the first foreign key of a table is taken.
FirstFKRelationOnly(schema, k) ==
    IF k > Len(schema.foreign_keys) THEN <<>>
    ELSE LET fk == schema.foreign_keys[k]
         IN  <<TableRelation(schema.table_name, fk.from_column, fk.to_table,
                             fk.to_column, "foreign_key", FKConfidence)>>

\* Mutant: every foreign key is also emitted as a naming_pattern relation.
RECURSIVE ForeignKeyAndNamingRelations(_, _)
ForeignKeyAndNamingRelations(schema, k) ==
    IF k > Len(schema.foreign_keys) THEN <<>>
    ELSE LET fk == schema.foreign_keys[k]
         IN  <<TableRelation(schema.table_name, fk.from_column, fk.to_table,
                             fk.to_column, "foreign_key", FKConfidence),
               TableRelation(schema.table_name, fk.from_column, fk.to_table,
                             fk.to_column, "naming_pattern", 70)>>
             \o ForeignKeyAndNamingRelations(schema, k + 1)

RECURSIVE TableFKRelations(_, _)
TableFKRelations(schema, k) ==
    IF k > Len(schema.foreign_keys) THEN <<>>
    ELSE LET fk == schema.foreign_keys[k]
         IN  <<TableRelation(schema.table_name, fk.from_column, fk.to_table,
                             fk.to_column, "foreign_key", FKConfidence)>>
             \o TableFKRelations(schema, k + 1)

RECURSIVE ForeignKeyRelations(_, _)
ForeignKeyRelations(schemas, i) ==
    IF i > Len(schemas) THEN <<>>
    ELSE TableFKRelations(schemas[i], 1) \o ForeignKeyRelations(schemas, i + 1)

(***************************************************************************)
(* The semantic oracle's response (call_llm), as json.loads sees it.       *)
(*   kind "none": call_llm returned None or the empty string;              *)
(*   kind "text": no JSON object in the text, or json.loads fails;         *)
(*   kind "json": an object, with or without the key 'relationships'.      *)
(* A judgment is an entry of 'relationships': an object (shape "object")   *)
(* or anything else; a missing table1/table2 reads as ''; confidence is a  *)
(* number (tag "num"), absent ("missing"), null ("null") or a string that  *)
(* is no number ("text").                                                  *)
(***************************************************************************)
Num(v) == [tag |-> "num", val |-> v]
ConfNull == [tag |-> "null", val |-> 0]
ConfMissing == [tag |-> "missing", val |-> 0]
ConfText == [tag |-> "text", val |-> 0]

Judgment(t1, t2, conf) ==
    [shape |-> "object", table1 |-> t1, table2 |-> t2, confidence |-> conf]

NoResponse == [kind |-> "none", has_relationships |-> FALSE, relationships |-> <<>>]
TextResponse == [kind |-> "text", has_relationships |-> FALSE, relationships |-> <<>>]
JsonResponse(js) == [kind |-> "json", has_relationships |-> TRUE, relationships |-> js]

OracleResponses ==
    { NoResponse, TextResponse,
      JsonResponse(<<Judgment("users", "products", Num(80))>>),
      JsonResponse(<<Judgment("orders", "users", ConfNull)>>) }

(***************************************************************************)
(* get_table_descriptions_from_neo4j: the Table nodes with a non-empty     *)
(* comment.                                                                *)
(***************************************************************************)
get_table_descriptions_from_neo4j(g) == {n.name : n \in {m \in g.tables : m.comment # ""}}

(***************************************************************************)
(* analyze_semantic_relationships_with_llm: the loop over                  *)
(* result['relationships'].  float(None) raises TypeError and a judgment   *)
(* that is no object raises AttributeError, neither of which the except    *)
(* clause catches; float of a non-numeric string raises ValueError, which  *)
(* it catches, returning the relations accepted so far.  A pair counts as  *)
(* existing when self.table_relations, the list of the previous run,       *)
(* holds it in either direction.                                           *)
(***************************************************************************)
Min(a, b) == IF a <= b THEN a ELSE b

ExistingRelation(relations, t1, t2) ==
    \E k \in 1..Len(relations) :
        \/ relations[k].from_table = t1 /\ relations[k].to_table = t2
        \/ relations[k].from_table = t2 /\ relations[k].to_table = t1

RECURSIVE AnalyzeJudgments(_, _, _, _, _)
AnalyzeJudgments(js, i, acc, schemas, old_relations) ==
    IF i > Len(js) THEN [raised |-> "none", relations |-> acc]
    ELSE LET j == js[i] IN
         IF j.shape # "object" THEN [raised |-> "AttributeError", relations |-> <<>>]
         ELSE IF j.confidence.tag = "null" THEN [raised |-> "TypeError", relations |-> <<>>]
         ELSE IF j.confidence.tag = "text" THEN [raised |-> "none", relations |-> acc]
         ELSE LET confidence == IF j.confidence.tag = "missing" THEN DefaultConfidence
                                ELSE j.confidence.val
                  valid == /\ j.table1 \in SchemaNames(schemas)
                           /\ j.table2 \in SchemaNames(schemas)
                           /\ j.table1 # j.table2
                  accept == valid /\ ~ExistingRelation(old_relations, j.table1, j.table2)
                  rel == TableRelation(j.table1, "", j.table2, "", "description_semantic",
                                       Min(confidence, SemanticCeiling))
              IN  AnalyzeJudgments(js, i + 1, IF accept THEN Append(acc, rel) ELSE acc,
                                   schemas, old_relations)

analyze_semantic_relationships_with_llm(response, schemas, old_relations) ==
    IF response.kind # "json" \/ ~response.has_relationships
    THEN [raised |-> "none", relations |-> <<>>]
    ELSE AnalyzeJudgments(response.relationships, 1, <<>>, schemas, old_relations)

(***************************************************************************)
(* extract_semantic_relations_from_descriptions: skipped without a driver  *)
(* or with fewer than two described tables in the store.                   *)
(***************************************************************************)
\* Mutant: the number of described tables is not looked at.
SemanticWithoutDescriptions(response, driver, g, schemas, old_relations) ==
    IF ~driver THEN [raised |-> "none", relations |-> <<>>]
    ELSE analyze_semantic_relationships_with_llm(response, schemas, old_relations)

extract_semantic_relations_from_descriptions(response, driver, g, schemas, old_relations) ==
    IF ~driver THEN [raised |-> "none", relations |-> <<>>]
    ELSE IF Cardinality(get_table_descriptions_from_neo4j(g)) < 2
         THEN [raised |-> "none", relations |-> <<>>]
         ELSE analyze_semantic_relationships_with_llm(response, schemas, old_relations)

(***************************************************************************)
(* extract_table_relations, pass 2: a semantic relation gets the first     *)
(* column of each table whose name ends in _id or contains 'name'.         *)
(***************************************************************************)
KeyLikeColumns ==
    {"user_id", "username", "full_name", "category_id", "category_name",
     "parent_category_id", "product_id", "product_name", "order_id",
     "order_item_id", "review_id"}

HasKeyLike(columns) == \E k \in 1..Len(columns) : columns[k] \in KeyLikeColumns

FirstKeyLike(columns) ==
    columns[CHOOSE k \in 1..Len(columns) :
                /\ columns[k] \in KeyLikeColumns
                /\ \A m \in 1..(k - 1) : columns[m] \notin KeyLikeColumns]

AddColumnInfo(rel, schemas) ==
    IF /\ rel.from_table \in SchemaNames(schemas)
       /\ rel.to_table \in SchemaNames(schemas)
       /\ HasKeyLike(SchemaGet(schemas, rel.from_table).columns)
       /\ HasKeyLike(SchemaGet(schemas, rel.to_table).columns)
    THEN [rel EXCEPT !.from_column = FirstKeyLike(SchemaGet(schemas, rel.from_table).columns),
                     !.to_column = FirstKeyLike(SchemaGet(schemas, rel.to_table).columns)]
    ELSE rel

(***************************************************************************)
(* A naming-pattern pass, which extract_table_relations does not have: a   *)
(* column X_id that is not its table's primary key, where a table named X  *)
(* or Xs has the primary key X_id and no foreign key of the table declares *)
(* the pair.                                                               *)
(***************************************************************************)
StrippedNames(c) ==
    CASE c = "user_id" -> {"user", "users"}
      [] c = "product_id" -> {"product", "products"}
      [] c = "order_id" -> {"order", "orders"}
      [] c = "category_id" -> {"category", "categorys"}
      [] c = "order_item_id" -> {"order_item", "order_items"}
      [] c = "parent_category_id" -> {"parent_category", "parent_categorys"}
      [] c = "review_id" -> {"review", "reviews"}
      [] OTHER -> {}

NamingTargets(schemas, i, c) ==
    {u \in 1..Len(schemas) :
        /\ c \notin SeqRange(schemas[i].primary_keys)
        /\ schemas[u].table_name \in StrippedNames(c)
        /\ schemas[u].primary_keys = <<c>>}

DeclaredForeignKey(schema, c, to_table) ==
    \E f \in 1..Len(schema.foreign_keys) :
        /\ schema.foreign_keys[f].from_column = c
        /\ schema.foreign_keys[f].to_table = to_table
        /\ schema.foreign_keys[f].to_column = c

RECURSIVE NamingPass(_, _, _)
NamingPass(schemas, i, k) ==
    IF i > Len(schemas) THEN <<>>
    ELSE IF k > Len(schemas[i].columns) THEN NamingPass(schemas, i + 1, 1)
    ELSE LET c == schemas[i].columns[k]
             open == {u \in NamingTargets(schemas, i, c) :
                         ~DeclaredForeignKey(schemas[i], c, schemas[u].table_name)}
         IN  (IF open = {} THEN <<>>
              ELSE LET u == CHOOSE u \in open : TRUE
                   IN  <<TableRelation(schemas[i].table_name, c, schemas[u].table_name, c,
                                       "naming_pattern", 70)>>)
             \o NamingPass(schemas, i, k + 1)

\* Mutant: a naming-pattern pass runs between the two passes.
ExtractWithNamingPass(response, driver, g, schemas, old_relations) ==
    LET fk == ForeignKeyRelations(schemas, 1)
        sem == extract_semantic_relations_from_descriptions(response, driver, g, schemas,
                                                            old_relations)
    IN  IF sem.raised # "none" THEN [raised |-> sem.raised, relations |-> <<>>]
        ELSE [raised |-> "none",
              relations |-> fk \o NamingPass(schemas, 1, 1)
                               \o [k \in 1..Len(sem.relations) |->
                                      AddColumnInfo(sem.relations[k], schemas)]]

\* The value extract_table_relations returns and stores, or what it raises.
extract_table_relations(response, driver, g, schemas, old_relations) ==
    LET fk == ForeignKeyRelations(schemas, 1)
        sem == extract_semantic_relations_from_descriptions(response, driver, g, schemas,
                                                            old_relations)
    IN  IF sem.raised # "none" THEN [raised |-> sem.raised, relations |-> <<>>]
        ELSE [raised |-> "none",
              relations |-> fk \o [k \in 1..Len(sem.relations) |->
                                      AddColumnInfo(sem.relations[k], schemas)]]

(***************************************************************************)
(* create_schema_graph_in_neo4j: wipe, then one Table node per table, one  *)
(* Column node per column, and the relationship edges.  A MATCH on a table *)
(* name that has no node creates nothing.  An edge keeps the position of   *)
(* the relation that made it.                                              *)
(***************************************************************************)
EmptyGraph ==
    [tables |-> {}, columns |-> {}, references |-> <<>>, semantic |-> <<>>,
     column_references |-> {}]

TableNodes(schemas) ==
    {[name |-> schemas[i].table_name, comment |-> schemas[i].comment] : i \in 1..Len(schemas)}

ColumnNodes(schemas) ==
    UNION {{<<schemas[i].table_name, schemas[i].columns[k]>> : k \in 1..Len(schemas[i].columns)}
           : i \in 1..Len(schemas)}

RECURSIVE ReferencesEdges(_, _, _)
ReferencesEdges(relations, names, i) ==
    IF i > Len(relations) THEN <<>>
    ELSE LET rel == relations[i]
             made == /\ rel.relation_type # "description_semantic"
                     /\ rel.from_table \in names
                     /\ rel.to_table \in names
         IN  (IF made THEN <<rel>> ELSE <<>>) \o ReferencesEdges(relations, names, i + 1)

RECURSIVE SemanticEdges(_, _, _)
SemanticEdges(relations, names, i) ==
    IF i > Len(relations) THEN <<>>
    ELSE LET rel == relations[i]
             made == /\ rel.relation_type = "description_semantic"
                     /\ rel.from_table \in names
                     /\ rel.to_table \in names
             fwd == [from_table |-> rel.from_table, to_table |-> rel.to_table,
                     relation_type |-> rel.relation_type, confidence |-> rel.confidence]
             bwd == [from_table |-> rel.to_table, to_table |-> rel.from_table,
                     relation_type |-> rel.relation_type, confidence |-> rel.confidence]
         IN  (IF made THEN <<fwd, bwd>> ELSE <<>>) \o SemanticEdges(relations, names, i + 1)

create_schema_graph_in_neo4j(schemas, relations) ==
    [tables |-> TableNodes(schemas),
     columns |-> ColumnNodes(schemas),
     references |-> ReferencesEdges(relations, SchemaNames(schemas), 1),
     semantic |-> SemanticEdges(relations, SchemaNames(schemas), 1),
     column_references |-> {}]

(***************************************************************************)
(* The wipe at the head of create_schema_graph_in_neo4j, three statements  *)
(* each in a transaction of its own:                                       *)
(*   MATCH (n:Table)-[r]-(m) DELETE r                                      *)
(*   MATCH (n:Table) DELETE n                                              *)
(*   MATCH (n:Column) DELETE n                                             *)
(* The first removes the relationships that touch a Table node, the second *)
(* the Table nodes.  The third is a plain DELETE: Neo4j refuses to delete  *)
(* a node that still has a relationship, so with a Column-to-Column        *)
(* REFERENCES edge in the store the statement fails, its transaction is    *)
(* rolled back, the error is raised out of the function and nothing is     *)
(* recreated.                                                              *)
(***************************************************************************)
WipeRaises(g) == g.column_references # {}

AfterFailedWipe(g) ==
    [tables |-> {}, columns |-> g.columns, references |-> <<>>, semantic |-> <<>>,
     column_references |-> g.column_references]

(***************************************************************************)
(* DataEmbedder.full_hybrid_embedding on the same store, as far as the     *)
(* schema graph goes: clear_neo4j_data (MATCH (n) DETACH DELETE n), then   *)
(* embed_schema_metadata: a Table node per table, a Column node per        *)
(* column, and for every foreign key whose two columns exist               *)
(*   CREATE (c1)-[:REFERENCES]->(c2)   between the two Column nodes.       *)
(***************************************************************************)
ColumnReferences(schemas) ==
    UNION {{<<schemas[i].table_name, schemas[i].foreign_keys[k].from_column,
              schemas[i].foreign_keys[k].to_table, schemas[i].foreign_keys[k].to_column>>
              : k \in {x \in 1..Len(schemas[i].foreign_keys) :
                         /\ <<schemas[i].table_name, schemas[i].foreign_keys[x].from_column>>
                               \in ColumnNodes(schemas)
                         /\ <<schemas[i].foreign_keys[x].to_table,
                               schemas[i].foreign_keys[x].to_column>> \in ColumnNodes(schemas)}}
           : i \in 1..Len(schemas)}

embed_schema_metadata(schemas) ==
    [tables |-> TableNodes(schemas),
     columns |-> ColumnNodes(schemas),
     references |-> <<>>,
     semantic |-> <<>>,
     column_references |-> ColumnReferences(schemas)]

(***************************************************************************)
(* The planner's query:                                                    *)
(*   MATCH (t1:Table), (t2:Table) WHERE t1.name IN $tables AND ...         *)
(*   MATCH path = shortestPath((t1)-[:REFERENCES*1..3]-(t2))               *)
(* A hop follows a REFERENCES edge in either direction.  JoinOf is the     *)
(* dict the planner builds for hop i of a path: the tables are the path's  *)
(* nodes i and i+1, the columns are the edge's own from_column and         *)
(* to_column.                                                              *)
(***************************************************************************)
JoinOf(u, v, rel) ==
    [from_table |-> u, to_table |-> v, from_column |-> rel.from_column,
     to_column |-> rel.to_column, confidence |-> rel.confidence]

\* Mutant: an edge is followed in its stored direction only.
HopsAlongDirection(g, u) ==
    {JoinOf(u, g.references[e].to_table, g.references[e]) :
        e \in {x \in 1..Len(g.references) : g.references[x].from_table = u}}

\* Mutant: SEMANTIC_RELATION edges are followed too.
HopsOfEveryKind(g, u) ==
    {JoinOf(u, g.references[e].to_table, g.references[e]) :
        e \in {x \in 1..Len(g.references) : g.references[x].from_table = u}}
    \cup
    {JoinOf(u, g.references[e].from_table, g.references[e]) :
        e \in {x \in 1..Len(g.references) : g.references[x].to_table = u}}
    \cup
    {[from_table |-> u, to_table |-> g.semantic[e].to_table, from_column |-> "",
      to_column |-> "", confidence |-> g.semantic[e].confidence] :
        e \in {x \in 1..Len(g.semantic) : g.semantic[x].from_table = u}}

HopsFrom(g, u) ==
    {JoinOf(u, g.references[e].to_table, g.references[e]) :
        e \in {x \in 1..Len(g.references) : g.references[x].from_table = u}}
    \cup
    {JoinOf(u, g.references[e].from_table, g.references[e]) :
        e \in {x \in 1..Len(g.references) : g.references[x].to_table = u}}

PathEnd(t, w) == IF w = <<>> THEN t ELSE w[Len(w)].to_table

RECURSIVE WalksFrom(_, _, _)
WalksFrom(g, t, n) ==
    IF n = 0 THEN {<<>>}
    ELSE UNION {{Append(w, h) : h \in HopsFrom(g, PathEnd(t, w))} : w \in WalksFrom(g, t, n - 1)}

PathsBetween(g, t1, t2, n) == {w \in WalksFrom(g, t1, n) : PathEnd(t1, w) = t2}

\* The row of the query for (t1, t2): the length of the shortest path,
\* tried from n hops on, and the paths of that length one of which the row
\* carries; distance 0 when the query has no row for the pair.
RECURSIVE ShortestPath(_, _, _, _)
ShortestPath(g, t1, t2, n) ==
    IF n > MaxHops THEN [distance |-> 0, paths |-> {}]
    ELSE LET p == PathsBetween(g, t1, t2, n)
         IN  IF p # {} THEN [distance |-> n, paths |-> p]
             ELSE ShortestPath(g, t1, t2, n + 1)

GraphNames(g) == {n.name : n \in g.tables}

(***************************************************************************)
(* connections: one entry per key tuple(sorted([table1, table2])), here    *)
(* the pair as a set.  The rows (t1, t2) and (t2, t1) of a pair have the   *)
(* same distance, and the row the result delivers first is the one kept:   *)
(* options holds the relationships lists either row can carry.             *)
(***************************************************************************)
Connection(g, k) ==
    LET a == CHOOSE x \in k : TRUE
        b == CHOOSE x \in k : x # a
        ab == ShortestPath(g, a, b, 1)
        ba == ShortestPath(g, b, a, 1)
    IN  [key |-> k, distance |-> ab.distance, options |-> ab.paths \cup ba.paths]

Connections(g, required) ==
    LET names == SeqRange(required) \cap GraphNames(g)
        rows == {Connection(g, k) : k \in {x \in SUBSET names : Cardinality(x) = 2}}
    IN  {c \in rows : c.distance > 0}

ConnectionKeys(connections) == {c.key : c \in connections}

\* connections[key]
ConnectionOf(connections, k) == CHOOSE c \in connections : c.key = k

\* sum(1 for k in connections.keys() if t in k)
ConnectionCount(connections, t) == Cardinality({c \in connections : t \in c.key})

\* max(required_tables, key=...): the first table of the list with the
\* greatest count.
StartTable(required, connections) ==
    required[CHOOSE i \in 1..Len(required) :
        /\ \A m \in 1..Len(required) :
              ConnectionCount(connections, required[m]) <= ConnectionCount(connections, required[i])
        /\ \A m \in 1..(i - 1) :
              ConnectionCount(connections, required[m]) < ConnectionCount(connections, required[i])]

JoinStep(t, joins) == [table |-> t, joins |-> joins]

\* Mutant: every table counts as connected, placed or not.
ConnectedTablesEveryTable(start_table, join_sequence) == SeqRange(TableNames)

\* {start_table} | {j['to_table'] for seq in join_sequence for j in seq['joins']}
ConnectedTables(start_table, join_sequence) ==
    {start_table} \cup
    UNION {{join_sequence[i].joins[k].to_table : k \in 1..Len(join_sequence[i].joins)}
           : i \in 1..Len(join_sequence)}

(***************************************************************************)
(* The while loop.  remaining_tables and connected_tables are sets, whose  *)
(* iteration order Python leaves open (string hashes differ from run to    *)
(* run): of the pairs at the least distance any one can be met first, and  *)
(* the tables nothing connects are appended in any order.  The result is   *)
(* the set of join sequences a run can return.                             *)
(***************************************************************************)
RECURSIVE JoinSequences(_, _, _, _)
JoinSequences(join_sequence, remaining_tables, start_table, connections) ==
    IF remaining_tables = {} THEN {join_sequence}
    ELSE LET connected_tables == ConnectedTables(start_table, join_sequence)
             candidates == {rc \in remaining_tables \X connected_tables :
                               {rc[1], rc[2]} \in ConnectionKeys(connections)}
         IN  IF candidates = {}
             THEN {join_sequence \o [i \in 1..Len(p) |-> JoinStep(p[i], <<>>)] :
                      p \in Permutations_(remaining_tables)}
             ELSE LET best == {rc \in candidates :
                                 \A other \in candidates :
                                    ConnectionOf(connections, {rc[1], rc[2]}).distance
                                       <= ConnectionOf(connections, {other[1], other[2]}).distance}
                  IN  UNION {UNION {JoinSequences(Append(join_sequence, JoinStep(rc[1], j)),
                                                  remaining_tables \ {rc[1]},
                                                  start_table, connections)
                                    : j \in ConnectionOf(connections, {rc[1], rc[2]}).options}
                             : rc \in best}

\* What find_optimal_join_sequence can do: the join sequences it can
\* return.  No path of it raises.
Returned(join_sequences) == {[raised |-> "none", ret |-> js] : js \in join_sequences}

\* The body of the session block: query, connections, greedy loop.
PlanInSession(required_tables, g) ==
    LET connections == Connections(g, required_tables)
    IN  IF connections = {} THEN Returned({<<>>})
        ELSE LET start_table == StartTable(required_tables, connections)
             IN  Returned(JoinSequences(<<JoinStep(start_table, <<>>)>>,
                                        SeqRange(required_tables) \ {start_table},
                                        start_table, connections))

\* Mutant: an empty list of tables is refused with an error.
RefuseEmptyRequired(required_tables, driver, g) ==
    IF Len(required_tables) = 0 THEN {[raised |-> "Unplannable", ret |-> <<>>]}
    ELSE IF ~driver \/ Len(required_tables) < MinRequired THEN Returned({<<>>})
    ELSE PlanInSession(required_tables, g)

find_optimal_join_sequence(required_tables, driver, g) ==
    IF ~driver \/ Len(required_tables) < MinRequired THEN Returned({<<>>})
    ELSE PlanInSession(required_tables, g)

(***************************************************************************)
(* The state machine.  call is the call in progress: its operation, its    *)
(* inputs and what it returned or raised; the caller takes the result      *)
(* (Return) before it calls again.                                         *)
(***************************************************************************)
NoCall == [op |-> "none", required |-> <<>>, response |-> NoResponse,
           ret |-> <<>>, raised |-> "none"]

Called(op, required, response, ret, raised) ==
    [op |-> op, required |-> required, response |-> response, ret |-> ret,
     raised |-> raised]

\* The tables a caller asks for.
RequiredNames == {"categories", "products", "reviews", "users"}

RequiredLists == SeqsUpTo(RequiredNames, MaxRequired)

Init ==
    /\ table_schemas \in Schemas
    /\ table_relations = <<>>
    /\ neo4j_driver = FALSE
    /\ graph = EmptyGraph
    /\ call = NoCall

\* connect_to_neo4j: the driver is kept when the test query succeeds.
ConnectToNeo4j ==
    /\ call = NoCall
    /\ \E ok \in BOOLEAN :
          /\ neo4j_driver' = (neo4j_driver \/ ok)
          /\ call' = Called("connect_to_neo4j", <<>>, NoResponse, <<ok>>, "none")
    /\ UNCHANGED <<table_schemas, table_relations, graph>>

ExtractTableRelations ==
    /\ call = NoCall
    /\ \E response \in OracleResponses :
          LET r == extract_table_relations(response, neo4j_driver, graph, table_schemas,
                                           table_relations)
          IN  /\ table_relations' = IF r.raised = "none" THEN r.relations ELSE table_relations
              /\ call' = Called("extract_table_relations", <<>>, response, r.relations, r.raised)
    /\ UNCHANGED <<table_schemas, neo4j_driver, graph>>

CreateSchemaGraphInNeo4j ==
    /\ call = NoCall
    /\ graph' = IF ~neo4j_driver THEN graph
                ELSE IF WipeRaises(graph) THEN AfterFailedWipe(graph)
                ELSE create_schema_graph_in_neo4j(table_schemas, table_relations)
    /\ call' = Called("create_schema_graph_in_neo4j", <<>>, NoResponse, <<>>,
                      IF neo4j_driver /\ WipeRaises(graph) THEN "ClientError" ELSE "none")
    /\ UNCHANGED <<table_schemas, table_relations, neo4j_driver>>

FindOptimalJoinSequence ==
    /\ call = NoCall
    /\ \E required_tables \in RequiredLists :
          \E r \in find_optimal_join_sequence(required_tables, neo4j_driver, graph) :
              call' = Called("find_optimal_join_sequence", required_tables, NoResponse,
                             r.ret, r.raised)
    /\ UNCHANGED <<table_schemas, table_relations, neo4j_driver, graph>>

Return ==
    /\ call # NoCall
    /\ call' = NoCall
    /\ UNCHANGED <<table_schemas, table_relations, neo4j_driver, graph>>

Next ==
    \/ ConnectToNeo4j
    \/ ExtractTableRelations
    \/ CreateSchemaGraphInNeo4j
    \/ FindOptimalJoinSequence
    \/ Return

Spec == Init /\ [][Next]_vars

(***************************************************************************)
(* The inference cycle alone, under the responses a language model can     *)
(* give: connect, extract_table_relations, create_schema_graph_in_neo4j in *)
(* any order and any number of times.  The store outlives the generator,   *)
(* so a run may find the graph of an earlier one.                          *)
(***************************************************************************)
NotAnObject == [shape |-> "string", table1 |-> "", table2 |-> "", confidence |-> ConfMissing]

InferResponses ==
    { NoResponse, TextResponse,
      [kind |-> "json", has_relationships |-> FALSE, relationships |-> <<>>],
      JsonResponse(<<Judgment("users", "products", Num(80))>>),
      JsonResponse(<<Judgment("users", "products", Num(80)),
                     Judgment("products", "users", Num(70))>>),
      JsonResponse(<<Judgment("users", "products", Num(80)),
                     Judgment("users", "products", Num(80))>>),
      JsonResponse(<<Judgment("users", "products", Num(0))>>),
      JsonResponse(<<Judgment("users", "products", Num(-20))>>),
      JsonResponse(<<Judgment("users", "products", Num(150))>>),
      JsonResponse(<<Judgment("users", "products", ConfMissing)>>),
      JsonResponse(<<Judgment("users", "payments", Num(80)),
                     Judgment("users", "users", Num(80)),
                     Judgment("", "products", Num(80)),
                     Judgment("users", "products", Num(80))>>),
      JsonResponse(<<Judgment("orders", "users", Num(80))>>),
      JsonResponse(<<Judgment("users", "products", Num(80)),
                     Judgment("orders", "products", ConfNull),
                     Judgment("products", "categories", Num(70))>>),
      JsonResponse(<<Judgment("users", "products", Num(80)),
                     Judgment("orders", "products", ConfText),
                     Judgment("products", "categories", Num(70))>>),
      JsonResponse(<<NotAnObject, Judgment("users", "products", Num(80))>>) }

ExtractTableRelationsInfer ==
    /\ call = NoCall
    /\ \E response \in InferResponses :
          LET r == extract_table_relations(response, neo4j_driver, graph, table_schemas,
                                           table_relations)
          IN  /\ table_relations' = IF r.raised = "none" THEN r.relations ELSE table_relations
              /\ call' = Called("extract_table_relations", <<>>, response, r.relations, r.raised)
    /\ UNCHANGED <<table_schemas, neo4j_driver, graph>>

NextInfer ==
    \/ ConnectToNeo4j
    \/ ExtractTableRelationsInfer
    \/ CreateSchemaGraphInNeo4j
    \/ Return

SpecInfer == Init /\ [][NextInfer]_vars

(***************************************************************************)
(* The store shared with the embedder: the inference cycle and             *)
(* DataEmbedder.full_hybrid_embedding, which runs as a program of its own  *)
(* against the same database.                                              *)
(***************************************************************************)
FullHybridEmbedding ==
    /\ call = NoCall
    /\ graph' = embed_schema_metadata(table_schemas)
    /\ call' = Called("full_hybrid_embedding", <<>>, NoResponse, <<>>, "none")
    /\ UNCHANGED <<table_schemas, table_relations, neo4j_driver>>

NextStore ==
    \/ ConnectToNeo4j
    \/ ExtractTableRelations
    \/ CreateSchemaGraphInNeo4j
    \/ FullHybridEmbedding
    \/ Return

SpecStore == Init /\ [][NextStore]_vars

(***************************************************************************)
(* create_schema_graph_in_neo4j statement by statement.  Every             *)
(* session.run is an auto-commit transaction of its own, so another        *)
(* client of the same database (a second generator, the embedder) can      *)
(* read between any two of them; the function takes no lock.  The          *)
(* statements, in order: the three deletes, then per table the CREATE of   *)
(* its Table node and of its Column nodes, then per relationship the       *)
(* CREATE of its edge or pair of edges.  The Column nodes of a table are   *)
(* taken together with their table, and the two edges of a semantic        *)
(* relationship together.  While the call runs, call holds the statement   *)
(* to run next, the store as it was when the call began, and the last      *)
(* thing the other client read.                                            *)
(***************************************************************************)
DeleteRelationships == 1
DeleteTables == 2
DeleteColumns == 3
CreateTables == 4
CreateRelationships == 5
RebuildDone == 6

Statement(phase, index) == [phase |-> phase, index |-> index]

NextStatement(st, schemas, relations) ==
    LET after_tables == IF Len(relations) > 0 THEN Statement(CreateRelationships, 1)
                        ELSE Statement(RebuildDone, 0)
        first_table == IF Len(schemas) > 0 THEN Statement(CreateTables, 1)
                       ELSE after_tables
    IN  CASE st.phase = DeleteRelationships -> Statement(DeleteTables, 0)
          [] st.phase = DeleteTables -> Statement(DeleteColumns, 0)
          [] st.phase = DeleteColumns -> first_table
          [] st.phase = CreateTables ->
                IF st.index < Len(schemas) THEN Statement(CreateTables, st.index + 1)
                ELSE after_tables
          [] st.phase = CreateRelationships ->
                IF st.index < Len(relations) THEN Statement(CreateRelationships, st.index + 1)
                ELSE Statement(RebuildDone, 0)

RunStatement(g, st, schemas, relations) ==
    CASE st.phase = DeleteRelationships -> [g EXCEPT !.references = <<>>, !.semantic = <<>>]
      [] st.phase = DeleteTables -> [g EXCEPT !.tables = {}]
      [] st.phase = DeleteColumns -> [g EXCEPT !.columns = {}]
      [] st.phase = CreateTables ->
            [g EXCEPT !.tables = @ \cup TableNodes(<<schemas[st.index]>>),
                      !.columns = @ \cup ColumnNodes(<<schemas[st.index]>>)]
      [] st.phase = CreateRelationships ->
            [g EXCEPT !.references =
                         @ \o ReferencesEdges(<<relations[st.index]>>, GraphNames(g), 1),
                      !.semantic =
                         @ \o SemanticEdges(<<relations[st.index]>>, GraphNames(g), 1)]

NoRead == [required |-> <<>>, connections |-> {}]

Rebuilding(st, old, reader) ==
    [op |-> "rebuilding", required |-> <<>>, response |-> NoResponse, ret |-> <<>>,
     raised |-> "none", statement |-> st, old |-> old, reader |-> reader]

\* The lists the other client plans for.
ReaderLists == {<<"users", "products">>, <<"products", "categories">>, <<"users", "reviews">>}

BeginRebuild ==
    /\ call = NoCall
    /\ neo4j_driver
    /\ ~WipeRaises(graph)
    /\ call' = Rebuilding(Statement(DeleteRelationships, 0), graph, NoRead)
    /\ UNCHANGED <<table_schemas, table_relations, neo4j_driver, graph>>

RebuildStatement ==
    /\ call.op = "rebuilding"
    /\ call.statement.phase # RebuildDone
    /\ graph' = RunStatement(graph, call.statement, table_schemas, table_relations)
    /\ call' = [call EXCEPT !.statement = NextStatement(@, table_schemas, table_relations)]
    /\ UNCHANGED <<table_schemas, table_relations, neo4j_driver>>

EndRebuild ==
    /\ call.op = "rebuilding"
    /\ call.statement.phase = RebuildDone
    /\ call' = Called("create_schema_graph_in_neo4j", <<>>, NoResponse, <<>>, "none")
    /\ UNCHANGED <<table_schemas, table_relations, neo4j_driver, graph>>

\* The planner's query of another client, one read transaction.
ConcurrentQuery ==
    /\ call.op = "rebuilding"
    /\ \E required_tables \in ReaderLists :
          call' = [call EXCEPT !.reader = [required |-> required_tables,
                                           connections |-> Connections(graph, required_tables)]]
    /\ UNCHANGED <<table_schemas, table_relations, neo4j_driver, graph>>

ReturnFromCall ==
    /\ call.op # "rebuilding"
    /\ Return

NextRebuild ==
    \/ ConnectToNeo4j
    \/ ExtractTableRelations
    \/ BeginRebuild
    \/ RebuildStatement
    \/ EndRebuild
    \/ ConcurrentQuery
    \/ ReturnFromCall

SpecRebuild == Init /\ [][NextRebuild]_vars

(***************************************************************************)
(* search_tables_with_graph_metadata.  The language model names the seed   *)
(* tables (llm_tables: the selected_tables of its answer, the empty list   *)
(* when the answer cannot be parsed); three queries expand or replace the  *)
(* list and the last stage filters it against self.table_schemas.          *)
(***************************************************************************)
ExpandHops == 2
StructuralLimit == 3
SemanticLimit == 2
CentralityLimit == 4
FinalLimit == 6
CoreTables == 3

\* The names a store or an answer can hold, in ascending name order.
SearchNames ==
    <<"categories", "order_items", "orders", "payments", "products", "reviews", "users">>

SearchRank(t) == CHOOSE i \in 1..Len(SearchNames) : SearchNames[i] = t

RECURSIVE Repeat(_, _)
Repeat(x, n) == IF n = 0 THEN <<>> ELSE <<x>> \o Repeat(x, n - 1)

\* LIMIT n
FirstRows(rows, n) == SubSeq(rows, 1, Min(n, Len(rows)))

\* length(shortestPath((selected)-[:REFERENCES*1..2]-(related))), 0 when
\* no such path exists.
RECURSIVE ExpandDistance(_, _, _, _)
ExpandDistance(g, s, t, n) ==
    IF n > ExpandHops THEN 0
    ELSE IF PathsBetween(g, s, t, n) # {} THEN n
    ELSE ExpandDistance(g, s, t, n + 1)

\* The rows of expand_query from (d, SearchNames[i]) on, in the order of
\* ORDER BY length(path), related_table.  A row carries the path, so
\* DISTINCT keeps one row for each pair of a selected and a related node:
\* a related table has as many rows as selected tables reach it.
RECURSIVE ExpandRows(_, _, _, _)
ExpandRows(g, selected_tables, d, i) ==
    IF d > ExpandHops THEN <<>>
    ELSE IF i > Len(SearchNames) THEN ExpandRows(g, selected_tables, d + 1, 1)
    ELSE LET related == SearchNames[i]
             from == {s \in SeqRange(selected_tables) \cap GraphNames(g) :
                         ExpandDistance(g, s, related, 1) = d}
             rows == IF related \in GraphNames(g) \ SeqRange(selected_tables)
                     THEN Repeat(related, Cardinality(from))
                     ELSE <<>>
         IN  rows \o ExpandRows(g, selected_tables, d, i + 1)

\* Mutant: the expand query without its LIMIT.
StructuralExpansionUnlimited(g, selected_tables) == ExpandRows(g, selected_tables, 1, 1)

\* Stage 2-1: the related_table of every row is appended.
StructuralExpansion(g, selected_tables) ==
    FirstRows(ExpandRows(g, selected_tables, 1, 1), StructuralLimit)

SemanticLinked(g, selected_tables, related) ==
    \E e \in 1..Len(g.semantic) :
        \/ g.semantic[e].from_table \in SeqRange(selected_tables) /\ g.semantic[e].to_table = related
        \/ g.semantic[e].to_table \in SeqRange(selected_tables) /\ g.semantic[e].from_table = related

\* The rows of semantic_query from SearchNames[i] on; DISTINCT over the
\* related table alone.
RECURSIVE SemanticRows(_, _, _)
SemanticRows(g, selected_tables, i) ==
    IF i > Len(SearchNames) THEN <<>>
    ELSE LET related == SearchNames[i]
             row == /\ related \in GraphNames(g) \ SeqRange(selected_tables)
                    /\ SemanticLinked(g, selected_tables, related)
         IN  (IF row THEN <<related>> ELSE <<>>) \o SemanticRows(g, selected_tables, i + 1)

\* Stage 2-2, run on the list stage 2-1 has extended.
SemanticExpansion(g, selected_tables) ==
    FirstRows(SemanticRows(g, selected_tables, 1), SemanticLimit)

\* count(r) of (t)-[r:REFERENCES]-(other:Table)
ReferenceCount(g, t) ==
    Cardinality({e \in 1..Len(g.references) :
                    g.references[e].from_table = t \/ g.references[e].to_table = t})

\* ORDER BY connections DESC, t.name
RECURSIVE CentralityRows(_, _)
CentralityRows(g, rest) ==
    IF rest = {} THEN <<>>
    ELSE LET t == CHOOSE x \in rest : \A y \in rest :
                     \/ ReferenceCount(g, x) > ReferenceCount(g, y)
                     \/ /\ ReferenceCount(g, x) = ReferenceCount(g, y)
                        /\ SearchRank(x) <= SearchRank(y)
         IN  <<t>> \o CentralityRows(g, rest \ {t})

\* Stage 3: the list when stage 1 selected nothing.
CentralityFallback(g) == FirstRows(CentralityRows(g, GraphNames(g)), CentralityLimit)

\* Stage 4
RECURSIVE FinalTables(_, _, _, _)
FinalTables(selected_tables, schemas, i, final_tables) ==
    IF i > Len(selected_tables) THEN final_tables
    ELSE LET table == selected_tables[i]
             keep == table \in SchemaNames(schemas) /\ table \notin SeqRange(final_tables)
         IN  FinalTables(selected_tables, schemas, i + 1,
                         IF keep THEN Append(final_tables, table) ELSE final_tables)

\* extract_relevant_tables_fallback: the answer's tables that the schema
\* holds, as the answer lists them; the first three tables of the schema
\* when none is left.
extract_relevant_tables_fallback(llm_tables, schemas) ==
    LET selected_tables == SelectSeq(llm_tables, LAMBDA table : table \in SchemaNames(schemas))
    IN  IF selected_tables # <<>> THEN selected_tables
        ELSE [i \in 1..Min(CoreTables, Len(schemas)) |-> schemas[i].table_name]

search_tables_with_graph_metadata(llm_tables, driver, g, schemas) ==
    IF ~driver THEN extract_relevant_tables_fallback(llm_tables, schemas)
    ELSE LET structural == llm_tables \o StructuralExpansion(g, llm_tables)
             expanded == structural \o SemanticExpansion(g, structural)
             selected_tables == IF llm_tables = <<>> THEN CentralityFallback(g) ELSE expanded
         IN  FirstRows(FinalTables(selected_tables, schemas, 1, <<>>), FinalLimit)

\* The DDL's six tables as one chain, and payments -> orders.
SchemaWide ==
    SchemaLong \o
    << [table_name |-> "payments", columns |-> <<"payment_id", "order_id", "amount">>,
        primary_keys |-> <<"payment_id">>,
        foreign_keys |-> <<FK("order_id", "orders", "order_id")>>,
        comment |-> "payments of an order"] >>

SearchSchemas == Schemas \cup {SchemaWide}

\* The store outlives the process: it is empty or holds the graph an
\* earlier run built from its schema.
StoredGraphs == {EmptyGraph} \cup {create_schema_graph_in_neo4j(s, <<>>) : s \in SearchSchemas}

InitSearch ==
    /\ table_schemas \in SearchSchemas
    /\ table_relations = <<>>
    /\ neo4j_driver = FALSE
    /\ graph \in StoredGraphs
    /\ call = NoCall

SearchResponses ==
    { NoResponse,
      JsonResponse(<<Judgment("users", "products", Num(80)),
                     Judgment("users", "categories", Num(75)),
                     Judgment("users", "order_items", Num(70))>>) }

ExtractTableRelationsSearch ==
    /\ call = NoCall
    /\ \E response \in SearchResponses :
          LET r == extract_table_relations(response, neo4j_driver, graph, table_schemas,
                                           table_relations)
          IN  /\ table_relations' = IF r.raised = "none" THEN r.relations ELSE table_relations
              /\ call' = Called("extract_table_relations", <<>>, response, r.relations, r.raised)
    /\ UNCHANGED <<table_schemas, neo4j_driver, graph>>

\* The selected_tables an answer of the language model can carry.
SeedLists ==
    { <<>>, <<"users">>, <<"orders">>, <<"reviews">>, <<"reviews", "reviews">>,
      <<"payments", "users">>, <<"users", "products">>,
      <<"users", "categories", "reviews", "payments">>, SearchNames }

SearchTablesWithGraphMetadata ==
    /\ call = NoCall
    /\ \E llm_tables \in SeedLists :
          call' = Called("search_tables_with_graph_metadata", llm_tables, NoResponse,
                         search_tables_with_graph_metadata(llm_tables, neo4j_driver, graph,
                                                           table_schemas),
                         "none")
    /\ UNCHANGED <<table_schemas, table_relations, neo4j_driver, graph>>

NextSearch ==
    \/ ConnectToNeo4j
    \/ ExtractTableRelationsSearch
    \/ CreateSchemaGraphInNeo4j
    \/ SearchTablesWithGraphMetadata
    \/ Return

SpecSearch == InitSearch /\ [][NextSearch]_vars

(***************************************************************************)
(* extract_schema_from_ddl.  The DDL text is a run of CREATE TABLE         *)
(* declarations; a declaration ends with ") COMMENT = '...';" or, without  *)
(* a table-level comment, with ");".  The pattern                          *)
(*   CREATE TABLE (\w+) \((.*?)\) COMMENT = '(.*?)';                       *)
(* is matched with re.DOTALL: a match starts at a declaration and its body *)
(* runs to the first table-level comment that follows, across the          *)
(* declarations in between, and the text after the last such comment       *)
(* matches nothing.  In a body that runs across declarations the lines     *)
(* "-- n. ..." and "CREATE TABLE name (" of a swallowed declaration are    *)
(* read as columns named "--" and "CREATE".                                *)
(***************************************************************************)
DDLTables == <<"users", "categories", "products", "orders", "order_items", "reviews">>

DDLForeignKeys(t) ==
    CASE t = "users" -> <<>>
      [] t = "categories" -> <<FK("parent_category_id", "categories", "category_id")>>
      [] t = "products" -> <<FK("category_id", "categories", "category_id")>>
      [] t = "orders" -> <<FK("user_id", "users", "user_id")>>
      [] t = "order_items" -> <<FK("order_id", "orders", "order_id"),
                                FK("product_id", "products", "product_id")>>
      [] t = "reviews" -> <<FK("user_id", "users", "user_id"),
                            FK("product_id", "products", "product_id"),
                            FK("order_id", "orders", "order_id")>>

\* A declaration; the first column of every table of the DDL is declared
\* PRIMARY KEY AUTO_INCREMENT.
Declaration(t, has_comment) ==
    [table_name |-> t, columns |-> DDLColumns(t), primary_keys |-> <<DDLColumns(t)[1]>>,
     foreign_keys |-> DDLForeignKeys(t), has_comment |-> has_comment,
     comment |-> IF DDLComment(t) # "" THEN DDLComment(t) ELSE "a comment"]

\* The DDL in which the tables of commented end with a table-level comment.
DDLText(commented) ==
    [i \in 1..Len(DDLTables) |-> Declaration(DDLTables[i], DDLTables[i] \in commented)]

\* ddl_content: reviews alone has no table-level comment.
ddl_content == DDLText({"users", "categories", "products", "orders", "order_items"})

DDLTexts == {DDLText(commented) : commented \in SUBSET SeqRange(DDLTables)}

\* The declaration at which the body of a match that starts at i ends, 0
\* when no table-level comment follows.
NextCommented(ddl, i) ==
    IF \E k \in i..Len(ddl) : ddl[k].has_comment
    THEN CHOOSE k \in i..Len(ddl) : ddl[k].has_comment /\ \A m \in i..(k - 1) : ~ddl[m].has_comment
    ELSE 0

RECURSIVE BodyColumns(_, _, _)
BodyColumns(ddl, i, k) ==
    ddl[i].columns \o (IF i = k THEN <<>> ELSE <<"--", "CREATE">> \o BodyColumns(ddl, i + 1, k))

RECURSIVE BodyPrimaryKeys(_, _, _)
BodyPrimaryKeys(ddl, i, k) ==
    ddl[i].primary_keys \o (IF i = k THEN <<>> ELSE BodyPrimaryKeys(ddl, i + 1, k))

RECURSIVE BodyForeignKeys(_, _, _)
BodyForeignKeys(ddl, i, k) ==
    ddl[i].foreign_keys \o (IF i = k THEN <<>> ELSE BodyForeignKeys(ddl, i + 1, k))

\* The matches of the pattern from declaration i on, each as the
\* TableSchema the loop makes of it.
RECURSIVE TablePatterns(_, _)
TablePatterns(ddl, i) ==
    IF i > Len(ddl) \/ NextCommented(ddl, i) = 0 THEN <<>>
    ELSE LET k == NextCommented(ddl, i)
         IN  << [table_name |-> ddl[i].table_name, columns |-> BodyColumns(ddl, i, k),
                 primary_keys |-> BodyPrimaryKeys(ddl, i, k),
                 foreign_keys |-> BodyForeignKeys(ddl, i, k),
                 comment |-> ddl[k].comment] >>
             \o TablePatterns(ddl, k + 1)

extract_schema_from_ddl(ddl) == TablePatterns(ddl, 1)

InitDDL ==
    /\ table_schemas = <<>>
    /\ table_relations = <<>>
    /\ neo4j_driver = FALSE
    /\ graph = EmptyGraph
    /\ call = NoCall

\* The function reads the text embedded in it; the other texts differ
\* from it in which declarations end with a table-level comment.  The
\* schema is read once, before relations are extracted and the graph is
\* built.
ExtractSchemaFromDDL ==
    /\ call = NoCall
    /\ table_schemas = <<>> /\ table_relations = <<>> /\ graph = EmptyGraph
    /\ \E ddl \in DDLTexts :
          /\ table_schemas' = extract_schema_from_ddl(ddl)
          /\ call' = Called("extract_schema_from_ddl", ddl, NoResponse,
                            extract_schema_from_ddl(ddl), "none")
    /\ UNCHANGED <<table_relations, neo4j_driver, graph>>

NextDDL ==
    \/ ExtractSchemaFromDDL
    \/ ConnectToNeo4j
    \/ ExtractTableRelations
    \/ CreateSchemaGraphInNeo4j
    \/ Return

SpecDDL == InitDDL /\ [][NextDDL]_vars

(***************************************************************************)
(* Query generation and execution.  A statement is kept as what the        *)
(* validator's patterns see of it: its first word, the table names with    *)
(* the word or comma that precedes each, the alias.column references, and  *)
(* whether a JOIN condition is not of the form a.x = b.y.  Names are in    *)
(* lower case and a table is its own alias.                                *)
(***************************************************************************)
\* self.tables_info: the database holds the six tables of the DDL.
tables_info == [t \in SeqRange(DDLTables) |-> DDLColumns(t)]

TableRef(keyword, table) == [keyword |-> keyword, table |-> table]

Query(verb, refs, column_refs, malformed_join) ==
    [verb |-> verb, refs |-> refs, column_refs |-> column_refs,
     malformed_join |-> malformed_join]

\* None
NoQuery == Query("", <<>>, <<>>, FALSE)

Queries ==
    { Query("SELECT", <<TableRef("FROM", "users")>>, <<<<"users", "username">>>>, FALSE),
      Query("DELETE", <<TableRef("FROM", "users")>>, <<>>, FALSE),
      Query("SELECT", <<TableRef("FROM", "ghosts")>>, <<>>, FALSE),
      Query("SELECT", <<TableRef("FROM", "users"), TableRef(",", "ghosts")>>, <<>>, FALSE),
      Query("SELECT", <<TableRef("FROM", "users"), TableRef("JOIN", "orders")>>,
            <<<<"users", "nickname">>, <<"orders", "user_id">>>>, FALSE),
      Query("SELECT", <<TableRef("FROM", "orders")>>, <<<<"users", "user_id">>>>, FALSE),
      Query("SELECT", <<TableRef("FROM", "users"), TableRef("JOIN", "orders")>>, <<>>, TRUE) }

\* re.findall(r'(?:FROM|JOIN)\s+(\w+)...'): the names after FROM or JOIN.
FoundTables(query) ==
    SelectSeq(query.refs, LAMBDA ref : ref.keyword \in {"FROM", "JOIN"})

\* table_aliases
TableAliases(query) ==
    {FoundTables(query)[i].table : i \in 1..Len(FoundTables(query))} \cap DOMAIN tables_info

RECURSIVE TableErrors(_, _)
TableErrors(found_tables, i) ==
    IF i > Len(found_tables) THEN <<>>
    ELSE (IF found_tables[i].table \in DOMAIN tables_info THEN <<>> ELSE <<"unknown table">>)
         \o TableErrors(found_tables, i + 1)

RECURSIVE ColumnErrors(_, _)
ColumnErrors(query, i) ==
    IF i > Len(query.column_refs) THEN <<>>
    ELSE LET alias == query.column_refs[i][1]
             column == query.column_refs[i][2]
         IN  (IF alias \notin TableAliases(query) THEN <<"undefined alias">>
              ELSE IF column \notin SeqRange(tables_info[alias]) THEN <<"unknown column">>
              ELSE <<>>)
             \o ColumnErrors(query, i + 1)

\* validate_sql_query: the list of errors; the query is valid when the
\* list is empty.
validate_sql_query(query) ==
    (IF query.verb # "SELECT" THEN <<"not a SELECT">> ELSE <<>>)
    \o TableErrors(FoundTables(query), 1)
    \o ColumnErrors(query, 1)
    \o (IF query.malformed_join THEN <<"bad JOIN condition">> ELSE <<>>)

\* The answers of the language model: none, text without a statement, a
\* statement in a ```sql block, a statement on lines of its own.
Answer(kind, query) == [kind |-> kind, query |-> query]

Answers ==
    {Answer("none", NoQuery), Answer("prose", NoQuery)}
    \cup {Answer("block", q) : q \in Queries}
    \cup {Answer("lines", q) : q \in Queries}

\* extract_sql_from_response: a block is taken as it is; outside a block
\* only text from a SELECT on is taken.
extract_sql_from_response(response) ==
    IF response.kind = "block" THEN response.query
    ELSE IF response.kind = "lines" /\ response.query.verb = "SELECT" THEN response.query
    ELSE NoQuery

Generated(ret, llm_calls) == [ret |-> ret, llm_calls |-> llm_calls]

\* _retry_query_generation: one more call of the language model.
retry_query_generation(retry_response) ==
    LET retry_sql == extract_sql_from_response(retry_response)
    IN  IF retry_response.kind # "none" /\ retry_sql # NoQuery
           /\ validate_sql_query(retry_sql) = <<>>
        THEN retry_sql
        ELSE NoQuery

\* Mutant: the statement of the retry is returned as it comes.
GenerateWithoutRevalidation(response, retry_response) ==
    LET sql_query == extract_sql_from_response(response)
    IN  IF response.kind = "none" \/ sql_query = NoQuery THEN Generated(NoQuery, 1)
        ELSE IF validate_sql_query(sql_query) = <<>> THEN Generated(sql_query, 1)
        ELSE Generated(extract_sql_from_response(retry_response), 2)

\* generate_final_query, with the answers the language model gives to the
\* first prompt and to the retry prompt.
generate_final_query(response, retry_response) ==
    LET sql_query == extract_sql_from_response(response)
    IN  IF response.kind = "none" \/ sql_query = NoQuery THEN Generated(NoQuery, 1)
        ELSE IF validate_sql_query(sql_query) = <<>> THEN Generated(sql_query, 1)
        ELSE Generated(retry_query_generation(retry_response), 2)

Executed(ret, sent) == [ret |-> ret, sent |-> sent, raised |-> "none"]

\* execute_query: ret is <<>> for None; sent holds the statement handed to
\* cursor.execute.  Every exception is caught and turned into None.
execute_query(query, database_ok) ==
    IF validate_sql_query(query) # <<>> THEN Executed(<<>>, <<>>)
    ELSE IF database_ok THEN Executed(<<"rows">>, <<query>>)
    ELSE Executed(<<>>, <<query>>)

QueryCalled(op, inputs, ret, llm_calls, sent) ==
    [op |-> op, required |-> inputs, response |-> NoResponse, ret |-> ret,
     raised |-> "none", llm_calls |-> llm_calls, sent |-> sent]

GenerateFinalQuery ==
    /\ call = NoCall
    /\ \E response \in Answers : \E retry_response \in Answers :
          LET r == generate_final_query(response, retry_response)
          IN  call' = QueryCalled("generate_final_query", <<response, retry_response>>,
                                  <<r.ret>>, r.llm_calls, <<>>)
    /\ UNCHANGED <<table_schemas, table_relations, neo4j_driver, graph>>

\* The database runs the statement or fails (an unknown name, a lost
\* connection).
ExecuteQuery ==
    /\ call = NoCall
    /\ \E query \in Queries : \E database_ok \in BOOLEAN :
          LET r == execute_query(query, database_ok /\ \A i \in 1..Len(query.refs) :
                                                          query.refs[i].table \in DOMAIN tables_info)
          IN  call' = QueryCalled("execute_query", <<query>>, r.ret, 0, r.sent)
    /\ UNCHANGED <<table_schemas, table_relations, neo4j_driver, graph>>

NextQuery ==
    \/ GenerateFinalQuery
    \/ ExecuteQuery
    \/ Return

SpecQuery == Init /\ [][NextQuery]_vars

(***************************************************************************)
(* Vocabulary of the properties.  Distances are measured here by breadth-  *)
(* first reachability over a given edge list, apart from the planner's     *)
(* query.                                                                  *)
(***************************************************************************)
PlanCall == call.op = "find_optimal_join_sequence"

Required == SeqRange(call.required)

Neighbours(edges, S) ==
    S \cup {edges[e].to_table : e \in {x \in 1..Len(edges) : edges[x].from_table \in S}}
      \cup {edges[e].from_table : e \in {x \in 1..Len(edges) : edges[x].to_table \in S}}

RECURSIVE Within(_, _, _)
Within(edges, S, n) == IF n = 0 THEN S ELSE Neighbours(edges, Within(edges, S, n - 1))

\* Hop count between two distinct tables over the undirected view of
\* edges, 0 when it exceeds MaxHops.
HopDistance(edges, a, b) ==
    IF b \in Within(edges, {a}, MaxHops)
    THEN CHOOSE n \in 1..MaxHops :
            b \in Within(edges, {a}, n) /\ b \notin Within(edges, {a}, n - 1)
    ELSE 0

\* The required tables t is connected to within the hop bound.
Partners(t) ==
    {u \in Required \cap GraphNames(graph) :
        u # t /\ t \in GraphNames(graph) /\ HopDistance(graph.references, t, u) > 0}

Occurrences(join_sequence, t) ==
    Cardinality({i \in 1..Len(join_sequence) : join_sequence[i].table = t})

\* The positions <<table, k>> of the schema's foreign key declarations.
ForeignKeyPositions ==
    UNION {{<<i, k>> : k \in 1..Len(table_schemas[i].foreign_keys)}
           : i \in 1..Len(table_schemas)}

\* The store holds the schema's tables and one REFERENCES edge per foreign
\* key between them.
GraphHoldsForeignKeys ==
    /\ neo4j_driver
    /\ GraphNames(graph) = SchemaNames(table_schemas)
    /\ Len(graph.references) =
          Cardinality({ik \in ForeignKeyPositions :
                          table_schemas[ik[1]].foreign_keys[ik[2]].to_table
                             \in SchemaNames(table_schemas)})

(***************************************************************************)
(* C1 (as claimed): for two or more required tables of which two share no  *)
(* path within the hop bound, also when no pair is connected at all, the   *)
(* returned plan has a JoinStep for every required table, the tables       *)
(* connected to no other required table carry an empty predicate list, and *)
(* nothing is raised.                                                      *)
(***************************************************************************)
C1_DisconnectedStillPlanned ==
    ( /\ PlanCall
      /\ GraphHoldsForeignKeys
      /\ Required \subseteq GraphNames(graph)
      /\ Cardinality(Required) >= 2
      /\ \E a \in Required : \E b \in Required \ {a} : b \notin Partners(a) )
    => /\ call.raised = "none"
       /\ \A t \in Required : Occurrences(call.ret, t) >= 1
       /\ \A i \in 1..Len(call.ret) :
             Partners(call.ret[i].table) = {} => call.ret[i].joins = <<>>

C3_SingleTableOneStep ==
    ( /\ PlanCall
      /\ GraphHoldsForeignKeys
      /\ Cardinality(Required) = 1
      /\ Required \subseteq GraphNames(graph) )
    => \E t \in Required : call.ret = <<JoinStep(t, <<>>)>>

(***************************************************************************)
(* C4 (as claimed): for two or more required tables, repeated in the list  *)
(* or not, the plan holds each required table exactly once and no other    *)
(* table.                                                                  *)
(***************************************************************************)
C4_EachRequiredOnce ==
    ( /\ PlanCall
      /\ GraphHoldsForeignKeys
      /\ Required \subseteq GraphNames(graph)
      /\ Cardinality(Required) >= 2 )
    => /\ \A t \in Required : Occurrences(call.ret, t) = 1
       /\ \A i \in 1..Len(call.ret) : call.ret[i].table \in Required

\* C4 where it does hold: as soon as one pair of required tables is
\* connected, each required table is in the plan exactly once.
C4_OnceWhenSomePairConnected ==
    ( /\ PlanCall
      /\ neo4j_driver
      /\ \E t \in Required : Partners(t) # {} )
    => /\ \A t \in Required : Occurrences(call.ret, t) = 1
       /\ \A i \in 1..Len(call.ret) : call.ret[i].table \in Required

(***************************************************************************)
(* C5 (as claimed): the first table of a plan is the required table with   *)
(* the most pairwise connections and, among those tied, the one with the   *)
(* smallest name, whatever the order of the list passed.                   *)
(***************************************************************************)
C5_AnchorSmallestNameAmongTies ==
    (PlanCall /\ call.ret # <<>>) =>
        LET anchor == call.ret[1].table
        IN  /\ anchor \in Required
            /\ \A u \in Required : Cardinality(Partners(u)) <= Cardinality(Partners(anchor))
            /\ \A u \in Required :
                  Cardinality(Partners(u)) = Cardinality(Partners(anchor))
                     => NameRank(anchor) <= NameRank(u)

\* C5 where it does hold: the first table of a plan has the most pairwise
\* connections and, among those tied, comes first in the list passed.
C5_AnchorFirstInListAmongTies ==
    (PlanCall /\ call.ret # <<>>) =>
        LET anchor == call.ret[1].table
        IN  /\ call.ret[1].joins = <<>>
            /\ \A u \in Required : Cardinality(Partners(u)) <= Cardinality(Partners(anchor))
            /\ \E i \in 1..Len(call.required) :
                  /\ call.required[i] = anchor
                  /\ \A m \in 1..(i - 1) :
                        Cardinality(Partners(call.required[m])) < Cardinality(Partners(anchor))

\* A tie on the count that the list order decides against the name order.
C5_Witness ==
    /\ PlanCall
    /\ call.ret # <<>>
    /\ \E u \in Required :
          /\ u # call.ret[1].table
          /\ Cardinality(Partners(u)) = Cardinality(Partners(call.ret[1].table))
          /\ NameRank(u) < NameRank(call.ret[1].table)

(***************************************************************************)
(* C6 (as claimed): when the required tables can be ordered so that each   *)
(* one after the first is within the hop bound of an earlier one, every    *)
(* JoinStep after the first has predicates; and a later JoinStep has no    *)
(* predicates only if its table is within the hop bound of no table the    *)
(* loop has placed (the anchor and the steps that carry predicates).       *)
(***************************************************************************)
RECURSIVE Component(_, _)
Component(S, n) ==
    IF n = 0 THEN S ELSE Component(S \cup UNION {Partners(t) : t \in S}, n - 1)

Connectable ==
    \E a \in Required : Component({a}, Cardinality(Required)) = Required

C6_ConnectedSpanningSequence ==
    (PlanCall /\ GraphHoldsForeignKeys /\ Cardinality(Required) >= 2) =>
        /\ Connectable =>
              /\ \A t \in Required : Occurrences(call.ret, t) = 1
              /\ \A i \in 2..Len(call.ret) : call.ret[i].joins # <<>>
        /\ \A i \in 2..Len(call.ret) :
              call.ret[i].joins = <<>> =>
                 \A j \in 1..Len(call.ret) :
                    (j = 1 \/ call.ret[j].joins # <<>>)
                       => call.ret[j].table \notin Partners(call.ret[i].table)

(***************************************************************************)
(* C7: on the chain users <- orders <- order_items -> products, planning   *)
(* users and products returns two steps, the first without predicates, the *)
(* second with three predicates that lead from one of the two tables to    *)
(* the other through orders and order_items, none of them joining users    *)
(* to products directly.                                                   *)
(***************************************************************************)
PathTables(joins) == <<joins[1].from_table>> \o [k \in 1..Len(joins) |-> joins[k].to_table]

C7_UsersProductsThroughChain ==
    ( /\ PlanCall
      /\ table_schemas = SchemaChain
      /\ GraphHoldsForeignKeys
      /\ Required = {"users", "products"} )
    => /\ call.raised = "none"
       /\ Len(call.ret) = 2
       /\ {call.ret[1].table, call.ret[2].table} = {"users", "products"}
       /\ call.ret[1].joins = <<>>
       /\ Len(call.ret[2].joins) = 3
       /\ PathTables(call.ret[2].joins) \in
             {<<"users", "orders", "order_items", "products">>,
              <<"products", "order_items", "orders", "users">>}
       /\ \A k \in 1..3 :
             {call.ret[2].joins[k].from_table, call.ret[2].joins[k].to_table}
                # {"users", "products"}

C7_Witness ==
    /\ PlanCall
    /\ table_schemas = SchemaChain
    /\ GraphHoldsForeignKeys
    /\ call.required = <<"users", "products">>
    /\ Len(call.ret) = 2
    /\ call.ret[2].table = "products"
    /\ Len(call.ret[2].joins) = 3

(***************************************************************************)
(* C8 (as claimed): for every pair of required tables the query reports    *)
(* the least hop count over the undirected view of the edges of every      *)
(* kind, REFERENCES and SEMANTIC_RELATION alike, when it is at most        *)
(* MaxHops, and no connection otherwise.                                   *)
(***************************************************************************)
QueryReports(edges) ==
    LET connections == Connections(graph, call.required)
        names == Required \cap GraphNames(graph)
    IN  /\ \A c \in connections : c.key \subseteq names
        /\ \A a \in names : \A b \in names \ {a} :
              LET d == HopDistance(edges, a, b)
              IN  IF d > 0
                  THEN \E c \in connections :
                          /\ c.key = {a, b}
                          /\ c.distance = d
                          /\ \A w \in c.options : Len(w) = d
                  ELSE \A c \in connections : c.key # {a, b}

Reverse(s) == [i \in 1..Len(s) |-> s[Len(s) + 1 - i]]

C9_PlanningDeterministic ==
    PlanCall =>
        \A r \in find_optimal_join_sequence(call.required, neo4j_driver, graph)
                 \cup find_optimal_join_sequence(Reverse(call.required), neo4j_driver, graph) :
            r.ret = call.ret

\* C9 for one and the same list: the result still is not unique.
C9_SameListDeterministic ==
    PlanCall =>
        \A r \in find_optimal_join_sequence(call.required, neo4j_driver, graph) :
            r.ret = call.ret

\* C9 for one and the same list, up to the predicates: the order of the
\* tables still is not unique.
C9_SameListSameOrder ==
    PlanCall =>
        \A r \in find_optimal_join_sequence(call.required, neo4j_driver, graph) :
            /\ Len(r.ret) = Len(call.ret)
            /\ \A i \in 1..Len(r.ret) : r.ret[i].table = call.ret[i].table

(***************************************************************************)
(* C10: a call of extract_table_relations that returns yields, for every   *)
(* (table.column -> ref_table.ref_column), as many foreign_key relations   *)
(* as the schema declares foreign keys for it (one per constraint), each   *)
(* with both column names and confidence 1.0, and stores the list; with no *)
(* foreign key declared it yields none.  The call raises only on a         *)
(* judgment of the oracle's response, never on the schema.                 *)
(***************************************************************************)
ExtractCall == call.op = "extract_table_relations"

Declared(t, fc, tt, tc) ==
    {ik \in ForeignKeyPositions :
        /\ table_schemas[ik[1]].table_name = t
        /\ table_schemas[ik[1]].foreign_keys[ik[2]] = FK(fc, tt, tc)}

Emitted(relations, t, fc, tt, tc) ==
    {k \in 1..Len(relations) :
        /\ relations[k].relation_type = "foreign_key"
        /\ relations[k].from_table = t
        /\ relations[k].from_column = fc
        /\ relations[k].to_table = tt
        /\ relations[k].to_column = tc}

FKColumns == {"parent_category_id", "category_id", "user_id", "order_id", "product_id",
              "order_item_id", "customer_id"}

C10_NoForeignKeys ==
    (ExtractCall /\ table_schemas = SchemaNoFK) =>
        /\ call.raised = "none" =>
              \A k \in 1..Len(call.ret) : call.ret[k].relation_type # "foreign_key"
        /\ call.response.kind # "json" => call.raised = "none"

(***************************************************************************)
(* Vocabulary of the inference properties.                                 *)
(***************************************************************************)
Returned_ == ExtractCall /\ call.raised = "none"

\* The semantic pass ran: a driver, and two described tables in the store.
SemanticPassRan ==
    neo4j_driver /\ Cardinality(get_table_descriptions_from_neo4j(graph)) >= 2

IsSemantic(rel) == rel.relation_type = "description_semantic"

SemanticAt(relations) == {k \in 1..Len(relations) : IsSemantic(relations[k])}

PairOf(rel) == {rel.from_table, rel.to_table}

RelationSet(relations) == {relations[k] : k \in 1..Len(relations)}

\* What a second call with the same response would return now.
SecondRun ==
    extract_table_relations(call.response, neo4j_driver, graph, table_schemas,
                            table_relations)

(***************************************************************************)
(* C11 (as claimed): after a run of extract_table_relations has returned,  *)
(* a second run on the same schema with the same response of the language  *)
(* model returns the same set of relationships.                            *)
(***************************************************************************)
C11_SecondRunIdentical ==
    Returned_ =>
        /\ SecondRun.raised = "none"
        /\ RelationSet(SecondRun.relations) = RelationSet(call.ret)

\* C11 where it does hold: the foreign_key relationships of the two runs
\* are the same list.
C11_SecondRunSameForeignKeys ==
    Returned_ =>
        /\ SecondRun.raised = "none"
        /\ SelectSeq(SecondRun.relations, LAMBDA r : ~IsSemantic(r))
              = SelectSeq(call.ret, LAMBDA r : ~IsSemantic(r))

(***************************************************************************)
(* C12 (as claimed): a semantic relationship is accepted only if both      *)
(* tables are in the schema, the two differ, and no relationship of the    *)
(* same run, foreign_key or semantic accepted before it, joins the same    *)
(* two tables in either order.                                             *)
(***************************************************************************)
C12_AcceptedPairNotKnownToRun ==
    Returned_ =>
        \A k \in SemanticAt(call.ret) :
            /\ call.ret[k].from_table \in SchemaNames(table_schemas)
            /\ call.ret[k].to_table \in SchemaNames(table_schemas)
            /\ call.ret[k].from_table # call.ret[k].to_table
            /\ \A m \in 1..(k - 1) : PairOf(call.ret[m]) # PairOf(call.ret[k])

\* C12 where it does hold: the two tables of an accepted pair are in the
\* schema and differ.
C12_AcceptedTablesExistAndDiffer ==
    Returned_ =>
        \A k \in SemanticAt(call.ret) :
            /\ call.ret[k].from_table \in SchemaNames(table_schemas)
            /\ call.ret[k].to_table \in SchemaNames(table_schemas)
            /\ call.ret[k].from_table # call.ret[k].to_table

\* The store has just been rebuilt from the relationships of the last run.
Rebuilt == call.op = "create_schema_graph_in_neo4j" /\ neo4j_driver

EdgesFromTo(edges, a, b) ==
    {e \in 1..Len(edges) : edges[e].from_table = a /\ edges[e].to_table = b}

(***************************************************************************)
(* C13 (as claimed): after inference and rebuild, every accepted semantic  *)
(* pair {A, B} is in the store as exactly two SEMANTIC_RELATION edges,     *)
(* one from A to B and one from B to A, of equal confidence at most 0.9,   *)
(* whatever the response; and no such edge has an end outside the schema.  *)
(***************************************************************************)
C13_TwoSemanticEdgesPerPair ==
    Rebuilt =>
        /\ \A k \in SemanticAt(table_relations) :
              LET a == table_relations[k].from_table
                  b == table_relations[k].to_table
                  ab == EdgesFromTo(graph.semantic, a, b)
                  ba == EdgesFromTo(graph.semantic, b, a)
              IN  /\ Cardinality(ab) = 1
                  /\ Cardinality(ba) = 1
                  /\ \A e \in ab : \A f \in ba :
                        /\ graph.semantic[e].confidence = graph.semantic[f].confidence
                        /\ graph.semantic[e].confidence <= SemanticCeiling
        /\ \A e \in 1..Len(graph.semantic) :
              /\ graph.semantic[e].from_table \in SchemaNames(table_schemas)
              /\ graph.semantic[e].to_table \in SchemaNames(table_schemas)

\* C13 where it does hold: rebuild makes two edges, one in each direction
\* and of the relation's confidence, per semantic relationship of the list,
\* so a pair is in the store twice in each direction when the list holds it
\* twice.
C13_TwoSemanticEdgesPerRelation ==
    Rebuilt =>
        /\ Len(graph.semantic) = 2 * Cardinality(SemanticAt(table_relations))
        /\ \A k \in SemanticAt(table_relations) :
              LET a == table_relations[k].from_table
                  b == table_relations[k].to_table
              IN  /\ Cardinality(EdgesFromTo(graph.semantic, a, b))
                        = Cardinality(EdgesFromTo(graph.semantic, b, a))
                  /\ \E e \in EdgesFromTo(graph.semantic, a, b) :
                        \E f \in EdgesFromTo(graph.semantic, b, a) :
                           /\ graph.semantic[e].confidence = table_relations[k].confidence
                           /\ graph.semantic[f].confidence = table_relations[k].confidence
        /\ \A e \in 1..Len(graph.semantic) :
              /\ graph.semantic[e].confidence <= SemanticCeiling
              /\ graph.semantic[e].from_table \in SchemaNames(table_schemas)
              /\ graph.semantic[e].to_table \in SchemaNames(table_schemas)

(***************************************************************************)
(* C14 (as claimed): every relationship inference returns has a confidence *)
(* above 0.0 and at most 1.0, and a semantic one at most 0.9, whatever     *)
(* confidence the language model gives.                                    *)
(***************************************************************************)
C14_ConfidenceInRange ==
    Returned_ =>
        \A k \in 1..Len(call.ret) :
            /\ call.ret[k].confidence > 0
            /\ call.ret[k].confidence <= FKConfidence
            /\ IsSemantic(call.ret[k]) => call.ret[k].confidence <= SemanticCeiling

\* C14 where it does hold: the upper limits.
C14_ConfidenceAtMostCeiling ==
    Returned_ =>
        \A k \in 1..Len(call.ret) :
            /\ call.ret[k].confidence <= FKConfidence
            /\ IsSemantic(call.ret[k]) => call.ret[k].confidence <= SemanticCeiling

(***************************************************************************)
(* C15 (as claimed): neither the list inference returns nor the edges      *)
(* rebuild makes of it hold the same (from_table, from_column, to_table,   *)
(* to_column) twice for one kind, whatever the schema and the response.    *)
(***************************************************************************)
SameTuple(r, q) ==
    /\ r.from_table = q.from_table
    /\ r.from_column = q.from_column
    /\ r.to_table = q.to_table
    /\ r.to_column = q.to_column
    /\ r.relation_type = q.relation_type

C15_NoDuplicateTuple ==
    /\ Returned_ =>
          \A k \in 1..Len(call.ret) : \A m \in 1..Len(call.ret) :
              SameTuple(call.ret[k], call.ret[m]) => k = m
    /\ Rebuilt =>
          /\ \A e \in 1..Len(graph.references) : \A f \in 1..Len(graph.references) :
                SameTuple(graph.references[e], graph.references[f]) => e = f
          /\ \A e \in 1..Len(graph.semantic) :
                Cardinality(EdgesFromTo(graph.semantic, graph.semantic[e].from_table,
                                        graph.semantic[e].to_table)) = 1

\* C15 where it does hold: on a schema that declares no foreign key twice
\* the foreign_key relationships returned are distinct.
C15_DistinctForeignKeysWhenDeclaredOnce ==
    (Returned_ /\ table_schemas # SchemaDup) =>
        \A k \in 1..Len(call.ret) : \A m \in 1..Len(call.ret) :
            (~IsSemantic(call.ret[k]) /\ SameTuple(call.ret[k], call.ret[m])) => k = m

(***************************************************************************)
(* C16 (as claimed): extract_table_relations raises on no response of the  *)
(* language model: text that cannot be parsed, JSON with fields missing,   *)
(* an entry of relationships that is no object, a confidence that is null  *)
(* or no number; it returns normally.                                      *)
(***************************************************************************)
C16_InferenceNeverRaises ==
    ExtractCall => call.raised = "none"

BadJudgment(j) == j.shape # "object" \/ j.confidence.tag \in {"null", "text"}

\* C16 where it does hold: no raise unless an entry is no object or a
\* confidence is null.
C16_NoRaiseOnTextOrMissingFields ==
    ( /\ ExtractCall
      /\ \A k \in 1..Len(call.response.relationships) :
            /\ call.response.relationships[k].shape = "object"
            /\ call.response.relationships[k].confidence.tag # "null" )
    => call.raised = "none"

(***************************************************************************)
(* C17 (as claimed): a bad judgment inside a response does not abort the   *)
(* batch: the call returns, and every valid judgment of the response,      *)
(* before or after the bad one, has its pair among the relationships       *)
(* returned.                                                               *)
(***************************************************************************)
ValidJudgment(j) ==
    /\ j.shape = "object"
    /\ j.confidence.tag \in {"num", "missing"}
    /\ j.table1 \in SchemaNames(table_schemas)
    /\ j.table2 \in SchemaNames(table_schemas)
    /\ j.table1 # j.table2

JudgedPairReturned(j) ==
    \E m \in 1..Len(call.ret) : PairOf(call.ret[m]) = {j.table1, j.table2}

C17_BadJudgmentDoesNotAbortBatch ==
    ( /\ ExtractCall
      /\ SemanticPassRan
      /\ \E k \in 1..Len(call.response.relationships) :
            BadJudgment(call.response.relationships[k]) )
    => /\ call.raised = "none"
       /\ \A k \in 1..Len(call.response.relationships) :
             ValidJudgment(call.response.relationships[k])
                => JudgedPairReturned(call.response.relationships[k])

\* C17 as the code has it: a semantic relationship returned comes from a
\* valid judgment that no bad judgment precedes, so nothing is kept of the
\* judgments after a bad one.
C17_NothingKeptAfterBadJudgment ==
    Returned_ =>
        \A q \in SemanticAt(call.ret) :
            \E k \in 1..Len(call.response.relationships) :
                /\ ValidJudgment(call.response.relationships[k])
                /\ call.response.relationships[k].table1 = call.ret[q].from_table
                /\ call.response.relationships[k].table2 = call.ret[q].to_table
                /\ \A m \in 1..k : ~BadJudgment(call.response.relationships[m])

(***************************************************************************)
(* C18: without a driver, with fewer than two described tables in the      *)
(* store, or with no answer from the language model, the semantic pass is  *)
(* skipped: extract_table_relations raises nothing and returns exactly the *)
(* foreign_key relationships of the schema.                                *)
(***************************************************************************)
C18_SemanticPassSkippedWhenUnavailable ==
    ( /\ ExtractCall
      /\ \/ ~neo4j_driver
         \/ Cardinality(get_table_descriptions_from_neo4j(graph)) < 2
         \/ call.response.kind = "none" )
    => /\ call.raised = "none"
       /\ call.ret = ForeignKeyRelations(table_schemas, 1)
       /\ table_relations = call.ret

\* With the driver connected and an empty store, a response with a valid
\* judgment yields the foreign keys alone.
C18_Witness ==
    /\ ExtractCall
    /\ neo4j_driver
    /\ Cardinality(get_table_descriptions_from_neo4j(graph)) < 2
    /\ call.response = JsonResponse(<<Judgment("users", "products", Num(80))>>)
    /\ call.ret = ForeignKeyRelations(table_schemas, 1)
    /\ Len(call.ret) > 0

(***************************************************************************)
(* Naming candidates of the schema: <<i, c, u>> for a column c of table i  *)
(* that ends in _id, is not the table's primary key, and names table u.    *)
(***************************************************************************)
NamingCandidates ==
    UNION {UNION {{<<i, table_schemas[i].columns[k], u>>
                     : u \in NamingTargets(table_schemas, i, table_schemas[i].columns[k])}
                  : k \in 1..Len(table_schemas[i].columns)}
           : i \in 1..Len(table_schemas)}

Covered(cand) ==
    DeclaredForeignKey(table_schemas[cand[1]], cand[2], table_schemas[cand[3]].table_name)

RelationsFor(relations, cand, types) ==
    {k \in 1..Len(relations) :
        /\ relations[k].relation_type \in types
        /\ relations[k].from_table = table_schemas[cand[1]].table_name
        /\ relations[k].from_column = cand[2]
        /\ relations[k].to_table = table_schemas[cand[3]].table_name
        /\ relations[k].to_column = cand[2]}

(***************************************************************************)
(* C19: inference returns no naming_pattern relationship for a column pair *)
(* that a foreign key declares or a foreign_key relationship of the same   *)
(* list covers.                                                            *)
(***************************************************************************)
C19_NoNamingPatternOverForeignKey ==
    Returned_ =>
        \A k \in 1..Len(call.ret) :
            call.ret[k].relation_type = "naming_pattern" =>
                /\ Declared(call.ret[k].from_table, call.ret[k].from_column,
                            call.ret[k].to_table, call.ret[k].to_column) = {}
                /\ \A m \in 1..Len(call.ret) :
                      call.ret[m].relation_type = "foreign_key" =>
                         ~( /\ call.ret[m].from_table = call.ret[k].from_table
                            /\ call.ret[m].from_column = call.ret[k].from_column
                            /\ call.ret[m].to_table = call.ret[k].to_table
                            /\ call.ret[m].to_column = call.ret[k].to_column )

\* A returned run on a schema with a naming candidate that a foreign key
\* covers: the foreign_key relationship is there, a naming_pattern is not.
C19_Witness ==
    /\ Returned_
    /\ \E cand \in NamingCandidates :
          /\ Covered(cand)
          /\ RelationsFor(call.ret, cand, {"foreign_key"}) # {}
          /\ RelationsFor(call.ret, cand, {"naming_pattern"}) = {}

C21_RebuildIsFullWipeAndRecreate ==
    Rebuilt =>
        /\ call.raised = "none"
        /\ graph = create_schema_graph_in_neo4j(table_schemas, table_relations)

\* C21 where it does hold: a rebuild that returns leaves exactly the graph
\* of the schema and the relationship list.
C21_RebuildThatReturnsRecreates ==
    (Rebuilt /\ call.raised = "none") =>
        graph = create_schema_graph_in_neo4j(table_schemas, table_relations)

(***************************************************************************)
(* C22 (as claimed): the store is cleared and rebuilt atomically: a        *)
(* shortest-path query of another client that runs while                   *)
(* create_schema_graph_in_neo4j runs sees the complete store of before the *)
(* call or the complete store of after it, never a store partly wiped or   *)
(* partly filled.                                                          *)
(***************************************************************************)
C22_ReaderSeesOldOrNewSnapshot ==
    (call.op = "rebuilding" /\ call.reader # NoRead) =>
        call.reader.connections \in
            { Connections(call.old, call.reader.required),
              Connections(create_schema_graph_in_neo4j(table_schemas, table_relations),
                          call.reader.required) }

\* The statements together do what the call does as a whole.
C22_StatementsMakeTheRebuild ==
    (call.op = "rebuilding" /\ call.statement.phase = RebuildDone) =>
        graph = create_schema_graph_in_neo4j(table_schemas, table_relations)

(***************************************************************************)
(* C23 (as claimed): planning without a connection to the graph backend    *)
(* ends in a typed failure, an outcome that planning the same tables with  *)
(* the backend connected and no path between any two of them cannot have.  *)
(***************************************************************************)
OutcomeWhenDisconnected ==
    find_optimal_join_sequence(call.required, TRUE,
                               create_schema_graph_in_neo4j(table_schemas, <<>>))

C23_BackendFailureIsTypedFailure ==
    ( /\ PlanCall
      /\ ~neo4j_driver
      /\ Len(call.required) >= MinRequired )
    => /\ call.raised # "none"
       /\ [raised |-> call.raised, ret |-> call.ret] \notin OutcomeWhenDisconnected

\* C23 as the code has it: without a driver planning raises nothing and
\* returns the empty list, which is also what it returns for tables that
\* no path connects.
C23_NoDriverLooksLikeNoPath ==
    ( /\ PlanCall
      /\ ~neo4j_driver
      /\ Len(call.required) >= MinRequired )
    => /\ call.raised = "none"
       /\ call.ret = <<>>
       /\ [raised |-> call.raised, ret |-> call.ret] \in OutcomeWhenDisconnected

(***************************************************************************)
(* C24.  Seed expansion.                                                   *)
(***************************************************************************)
SearchCall == call.op = "search_tables_with_graph_metadata"

Seeds == SeqRange(call.required)

NoTableTwice(s) == \A i, j \in 1..Len(s) : s[i] = s[j] => i = j

C24_ConnectedSearchListIsClean ==
    (SearchCall /\ neo4j_driver) =>
        /\ SeqRange(call.ret) \subseteq SchemaNames(table_schemas)
        /\ NoTableTwice(call.ret)
        /\ Len(call.ret) <= 6

\* Without a connection the function hands the request to
\* extract_relevant_tables_fallback, which does no seed expansion: its
\* list also holds tables of the current schema only.
C24_UnconnectedSearchListInSchema ==
    (SearchCall /\ ~neo4j_driver) => SeqRange(call.ret) \subseteq SchemaNames(table_schemas)

(***************************************************************************)
(* C25.  The greedy step of the planner.                                   *)
(***************************************************************************)
\* The tables of the steps before step i.
PlacedBefore(join_sequence, i) == {join_sequence[k].table : k \in 1..(i - 1)}

\* The least hop count from table r to a table of placed, 0 when no table
\* of placed is within the hop bound.
DistanceToPlaced(r, placed) ==
    LET ds == {HopDistance(graph.references, r, p) : p \in placed \ {r}} \ {0}
    IN  IF ds = {} THEN 0 ELSE CHOOSE d \in ds : \A e \in ds : d <= e

\* The remaining tables some placed table reaches.
Reachable(remaining, placed) == {r \in remaining : DistanceToPlaced(r, placed) > 0}

\* C25: at every step after the anchor at which a placed table reaches a
\* remaining table, the table placed is a remaining table at the least
\* distance to the placed tables, and of the remaining tables at that
\* distance it is the one with the smallest name.
C25_NextIsNearestSmallestName ==
    (PlanCall /\ GraphHoldsForeignKeys /\ Required \subseteq GraphNames(graph)) =>
        \A i \in 2..Len(call.ret) :
            LET placed == PlacedBefore(call.ret, i)
                remaining == Required \ placed
                t == call.ret[i].table
            IN  Reachable(remaining, placed) # {} =>
                   /\ t \in Reachable(remaining, placed)
                   /\ \A r \in Reachable(remaining, placed) :
                         \/ DistanceToPlaced(t, placed) < DistanceToPlaced(r, placed)
                         \/ /\ DistanceToPlaced(t, placed) = DistanceToPlaced(r, placed)
                            /\ NameRank(t) <= NameRank(r)

\* C25 without the rule for ties: the table placed is at the least
\* distance to the placed tables.  A placed table whose predicates lead
\* away from it is no member of connected_tables, so this fails as well.
C25_NextIsNearest ==
    (PlanCall /\ GraphHoldsForeignKeys /\ Required \subseteq GraphNames(graph)) =>
        \A i \in 2..Len(call.ret) :
            LET placed == PlacedBefore(call.ret, i)
                remaining == Required \ placed
                t == call.ret[i].table
            IN  Reachable(remaining, placed) # {} =>
                   /\ t \in Reachable(remaining, placed)
                   /\ \A r \in Reachable(remaining, placed) :
                         DistanceToPlaced(t, placed) <= DistanceToPlaced(r, placed)

\* What the loop does keep: every step after the anchor places a table
\* that no earlier step placed.
C25_NextIsRemaining ==
    PlanCall =>
        \A i \in 2..Len(call.ret) :
            call.ret[i].table \in Required \ PlacedBefore(call.ret, i)

(***************************************************************************)
(* C26.  The predicates of a step.                                         *)
(***************************************************************************)
\* Each predicate starts at the table the one before it ends at.
IsPath(joins) == \A k \in 1..(Len(joins) - 1) : joins[k].to_table = joins[k + 1].from_table

\* C26: in every returned plan the first JoinStep has no predicates, and
\* the predicates of every later JoinStep that has some form a path with
\* the step's own table at one end and a table of an earlier step at the
\* other.
C26_PredicatesLinkToEarlierTable ==
    (PlanCall /\ call.ret # <<>>) =>
        /\ call.ret[1].joins = <<>>
        /\ \A i \in 2..Len(call.ret) :
              LET joins == call.ret[i].joins
                  t == call.ret[i].table
                  a == joins[1].from_table
                  b == joins[Len(joins)].to_table
              IN  joins # <<>> =>
                     /\ IsPath(joins)
                     /\ \/ a = t /\ b \in PlacedBefore(call.ret, i)
                        \/ b = t /\ a \in PlacedBefore(call.ret, i)

\* A plan with a step of two or more predicates that lead from the step's
\* table to a placed table other than the anchor, and a step whose
\* predicates lead to its table.
C26_Witness ==
    /\ PlanCall /\ Len(call.ret) >= 3
    /\ \E i \in 2..Len(call.ret) :
          LET joins == call.ret[i].joins
          IN  /\ Len(joins) >= 2
              /\ joins[1].from_table = call.ret[i].table
              /\ joins[Len(joins)].to_table # call.ret[1].table
    /\ \E i \in 2..Len(call.ret) :
          LET joins == call.ret[i].joins
          IN  joins # <<>> /\ joins[Len(joins)].to_table = call.ret[i].table

(***************************************************************************)
(* C27.  The columns of a predicate.                                       *)
(***************************************************************************)
\* Predicate j is edge e, read from the child or from the parent, with
\* each column on the side of its own table.
ColumnsOnTheirTables(j, e) ==
    \/ /\ j.from_table = e.from_table /\ j.from_column = e.from_column
       /\ j.to_table = e.to_table /\ j.to_column = e.to_column
    \/ /\ j.from_table = e.to_table /\ j.from_column = e.to_column
       /\ j.to_table = e.from_table /\ j.to_column = e.from_column

\* Predicate j carries the columns of edge e as the edge stores them,
\* whichever way the path crosses it.
ColumnsAsStored(j, e) ==
    /\ {j.from_table, j.to_table} = {e.from_table, e.to_table}
    /\ j.from_column = e.from_column
    /\ j.to_column = e.to_column

Predicates(join_sequence) ==
    UNION {SeqRange(join_sequence[i].joins) : i \in 1..Len(join_sequence)}

\* C27: every predicate of a plan is a REFERENCES edge of the store with
\* from_column the edge's column of from_table and to_column the edge's
\* column of to_table, also when the path crosses the edge from parent to
\* child.
C27_ColumnsBelongToTheirTables ==
    PlanCall =>
        \A j \in Predicates(call.ret) :
            \E e \in 1..Len(graph.references) : ColumnsOnTheirTables(j, graph.references[e])

\* What the code does: from_column and to_column are the edge's child and
\* parent column in either direction of travel.
C27_ColumnsAsStored ==
    PlanCall =>
        \A j \in Predicates(call.ret) :
            \E e \in 1..Len(graph.references) : ColumnsAsStored(j, graph.references[e])

(***************************************************************************)
(* C28.  The schema read from the DDL.                                     *)
(***************************************************************************)
DDLCall == call.op = "extract_schema_from_ddl"

\* The schemas hold an entry for declaration d with d's foreign keys.
HasEntry(schemas, d) ==
    \E i \in 1..Len(schemas) :
        schemas[i].table_name = d.table_name /\ schemas[i].foreign_keys = d.foreign_keys

\* C28: extract_schema_from_ddl yields an entry for every table the DDL
\* declares, the six of the embedded text among them, with the foreign
\* keys of that table, whether or not the declaration ends with a
\* table-level comment.
C28_EntryForEveryDeclaredTable ==
    DDLCall =>
        /\ Len(call.ret) = Len(call.required)
        /\ \A i \in 1..Len(call.required) : HasEntry(call.ret, call.required[i])

\* What holds: the declarations that end with a table-level comment and
\* follow one that does (or start the text) have their entry.
C28_EntryForCommentedAfterCommented ==
    DDLCall =>
        \A i \in 1..Len(call.required) :
            (call.required[i].has_comment /\ (i = 1 \/ call.required[i - 1].has_comment))
               => HasEntry(call.ret, call.required[i])

\* The embedded text yields the five tables before reviews.
C28_EmbeddedTextYieldsFiveTables ==
    (DDLCall /\ call.required = ddl_content) => call.ret = SchemaDDL

(***************************************************************************)
(* C29.  generate_final_query.                                             *)
(***************************************************************************)
GenerateCall == call.op = "generate_final_query"

\* C29: generate_final_query returns None or a statement for which
\* validate_sql_query reports no error, it calls the language model at
\* most twice, and when the statement of the second answer fails
\* validation too it returns None.
C29_NoneOrValidatedWithinTwoCalls ==
    GenerateCall =>
        LET ret == call.ret[1]
            first == extract_sql_from_response(call.required[1])
            second == extract_sql_from_response(call.required[2])
        IN  /\ call.raised = "none"
            /\ ret = NoQuery \/ validate_sql_query(ret) = <<>>
            /\ call.llm_calls \in 1..2
            /\ (call.llm_calls = 2 /\ validate_sql_query(second) # <<>>) => ret = NoQuery
            /\ call.llm_calls = 2 => (first # NoQuery /\ validate_sql_query(first) # <<>>)

\* The first statement fails validation and the retry's statement passes
\* and is returned.
C29_Witness ==
    /\ GenerateCall
    /\ call.llm_calls = 2
    /\ validate_sql_query(extract_sql_from_response(call.required[1])) # <<>>
    /\ call.ret[1] # NoQuery
    /\ call.ret[1] = extract_sql_from_response(call.required[2])

(***************************************************************************)
(* C30.  execute_query.                                                    *)
(***************************************************************************)
ExecuteCall == call.op = "execute_query"

\* Every table the statement names, after FROM, JOIN or a comma.
NamedTables(query) == {query.refs[i].table : i \in 1..Len(query.refs)}

\* C30: execute_query sends a statement to the database only when
\* validate_sql_query reports no error for it, so no statement that does
\* not begin with SELECT or that names an unknown table is sent; it raises
\* nothing, and it returns None when validation fails.
C30_OnlyValidatedKnownTablesSent ==
    ExecuteCall =>
        LET query == call.required[1]
        IN  /\ call.raised = "none"
            /\ validate_sql_query(query) # <<>> => (call.sent = <<>> /\ call.ret = <<>>)
            /\ call.sent # <<>> =>
                  /\ query.verb = "SELECT"
                  /\ NamedTables(query) \subseteq DOMAIN tables_info

\* What holds: a statement is sent only when validation reports no error,
\* it then begins with SELECT and the tables it names after FROM or JOIN
\* are known; nothing is raised, and None is returned when validation
\* fails or the database does.
C30_OnlyValidatedSent ==
    ExecuteCall =>
        LET query == call.required[1]
        IN  /\ call.raised = "none"
            /\ validate_sql_query(query) # <<>> => (call.sent = <<>> /\ call.ret = <<>>)
            /\ call.sent # <<>> =>
                  /\ call.sent = <<query>>
                  /\ validate_sql_query(query) = <<>>
                  /\ query.verb = "SELECT"
                  /\ \A i \in 1..Len(query.refs) :
                        query.refs[i].keyword \in {"FROM", "JOIN"}
                           => query.refs[i].table \in DOMAIN tables_info
            /\ (call.sent # <<>> /\ NamedTables(query) \subseteq DOMAIN tables_info)
                  \/ call.ret = <<>>

====
